---- MODULE Spec2Model ----
(***************************************************************************)
(* A model of the AT&T router polling client (router_client.py), the       *)
(* session authenticator it drives (auth.py) and the HTML device-table     *)
(* parser.  One client instance, one router; get_devices calls are         *)
(* serialized, so a call runs to its return before the next one starts.    *)
(***************************************************************************)
EXTENDS Integers, Sequences, FiniteSets, TLC

(***************************************************************************)
(* Bounds of the model.                                                    *)
(***************************************************************************)
\* Deepest nesting of get_devices frames the model follows; a call that would
\* nest deeper fails with RecursionError, as the interpreter's limit makes it.
MaxDepth == 3
\* Longest page (in table rows) given to the parser.
MaxRows == 4

(***************************************************************************)
(* Values.                                                                 *)
(***************************************************************************)
\* Python's None, for a token or a cookie that is absent.
None == "None"

\* Session tokens the router can issue, as SessionID cookie values: the empty
\* string or a fresh token (the configured token of Init is "t1").
Tokens == {"", "t2"}

\* bool(x) of a token: None and "" are falsy.
Truthy(t) == t # None /\ t # ""

\* Exceptions a network round trip can raise: asyncio.TimeoutError,
\* aiohttp.ClientError, any other Exception.
Exceptions == {"timeout", "client_error", "other"}


(***************************************************************************)
(* Text.  A cell's text is a sequence of one-character strings, so that    *)
(* str.lower, str.replace, str.strip and str.split are computed.           *)
(***************************************************************************)
UpperCase ==
  <<"A", "B", "C", "D", "E", "F", "G", "H", "I", "J", "K", "L", "M",
    "N", "O", "P", "Q", "R", "S", "T", "U", "V", "W", "X", "Y", "Z">>

LowerCase ==
  <<"a", "b", "c", "d", "e", "f", "g", "h", "i", "j", "k", "l", "m",
    "n", "o", "p", "q", "r", "s", "t", "u", "v", "w", "x", "y", "z">>

\* str.lower on one character.
LowerChar(c) ==
  IF \E i \in 1..Len(UpperCase) : UpperCase[i] = c
  THEN LowerCase[CHOOSE i \in 1..Len(UpperCase) : UpperCase[i] = c]
  ELSE c

\* str.lower
Lower(s) == [i \in 1..Len(s) |-> LowerChar(s[i])]

\* str.replace(":", "")
RemoveColons(s) == SelectSeq(s, LAMBDA c : c # ":")

IsSpace(c) == c = " "

\* str.lstrip, str.rstrip, str.strip
RECURSIVE LStrip(_)
LStrip(s) == IF s # <<>> /\ IsSpace(Head(s)) THEN LStrip(Tail(s)) ELSE s

RECURSIVE RStrip(_)
RStrip(s) ==
  IF s # <<>> /\ IsSpace(s[Len(s)]) THEN RStrip(SubSeq(s, 1, Len(s) - 1)) ELSE s

Strip(s) == RStrip(LStrip(s))

\* The mutant of FirstSlash that splits on the last "/".
FirstSlash_Last(s) ==
  IF \E i \in 1..Len(s) : s[i] = "/"
  THEN CHOOSE i \in 1..Len(s) : s[i] = "/" /\ \A j \in (i + 1)..Len(s) : s[j] # "/"
  ELSE 0

\* Index of the first "/" of s, 0 when it has none (str.split("/", 1)).
FirstSlash(s) ==
  IF \E i \in 1..Len(s) : s[i] = "/"
  THEN CHOOSE i \in 1..Len(s) : s[i] = "/" /\ \A j \in 1..(i - 1) : s[j] # "/"
  ELSE 0

\* sub in s, for a non-empty sub
Contains(s, sub) ==
  \E i \in 1..(Len(s) - Len(sub) + 1) : SubSeq(s, i, i + Len(sub) - 1) = sub

\* str.split(): the maximal runs of non-space characters.
RECURSIVE SplitWords(_, _, _)
SplitWords(s, word, words) ==
  IF s = <<>>
  THEN IF word = <<>> THEN words ELSE Append(words, word)
  ELSE IF IsSpace(Head(s))
       THEN SplitWords(Tail(s), <<>>, IF word = <<>> THEN words ELSE Append(words, word))
       ELSE SplitWords(Tail(s), Append(word, Head(s)), words)

Split(s) == SplitWords(s, <<>>, <<>>)

Digits == <<"0", "1", "2", "3", "4", "5", "6", "7", "8", "9">>

IsDigit(c) == \E i \in 1..Len(Digits) : Digits[i] = c

DigitValue(c) == (CHOOSE i \in 1..Len(Digits) : Digits[i] = c) - 1

\* int() of a run of digits
RECURSIVE IntOf(_)
IntOf(s) ==
  IF s = <<>> THEN 0 ELSE 10 * IntOf(SubSeq(s, 1, Len(s) - 1)) + DigitValue(s[Len(s)])

(***************************************************************************)
(* Table rows.  A row is what _parse_devices asks of a <tr>: whether it    *)
(* has a <th scope="row">, a <td class="col2">, an <hr class="reshr">, and *)
(* the two cells' text.                                                    *)
(***************************************************************************)
DataRow(label, text) ==
  [th |-> TRUE, td |-> TRUE, hr |-> FALSE, label |-> label, text |-> text,
   alt |-> <<>>]

\* A label/value row whose value cell also holds an <img alt=...>.
ImageRow(label, text, alt) ==
  [th |-> TRUE, td |-> TRUE, hr |-> FALSE, label |-> label, text |-> text,
   alt |-> alt]

\* The device boundary marker: no label/value pair, an <hr class="reshr">.
SeparatorRow ==
  [th |-> FALSE, td |-> FALSE, hr |-> TRUE, label |-> "", text |-> <<>>,
   alt |-> <<>>]

\* A row with neither a label/value pair nor a marker (a heading, a spacer).
PlainRow ==
  [th |-> FALSE, td |-> FALSE, hr |-> FALSE, label |-> "", text |-> <<>>,
   alt |-> <<>>]

\* A device record is a Python dict: a function from the keys it has.
EmptyDevice == [k \in {} |-> <<>>]

Put(d, k, v) == [x \in (DOMAIN d) \cup {k} |-> IF x = k THEN v ELSE d[x]]

HasKey(d, k) == k \in DOMAIN d

(***************************************************************************)
(* _parse_devices: the rows of the page, scanned in document order with    *)
(* one accumulator (current_device).                                       *)
(***************************************************************************)
\* td.get_text(strip=True) of a cell holding one text node.
CellValue(row) == Strip(row.text)

\* The mutant of MacKey that forgets to lower-case.
MacKey_NoLower(value) == RemoveColons(value)

\* current_device["mac"]
MacKey(value) == RemoveColons(Lower(value))

\* current_device["mac_formatted"]
MacFormatted(value) == Lower(value)

\* The mutant of IsOnline that compares case-sensitively.
IsOnline_CaseSensitive(value) == value = <<"o", "n">>

\* value.lower() == "on"
IsOnline(value) == Lower(value) = <<"o", "n">>

\* The "IPv4 Address / Name" branch: split on the first "/" only.
ApplyIpName(cur, value) ==
  LET k == FirstSlash(value) IN
  IF k = 0
  THEN Put(cur, "ip", Strip(value))
  ELSE Put(Put(cur, "ip", Strip(SubSeq(value, 1, k - 1))),
           "name", Strip(SubSeq(value, k + 1, Len(value))))

(***************************************************************************)
(* _parse_connection_type                                                  *)
(***************************************************************************)
EthernetWord == <<"E", "t", "h", "e", "r", "n", "e", "t">>
WiFiWord == <<"W", "i", "-", "F", "i">>
GHzWord == <<"G", "H", "z">>
NameWord == <<"N", "a", "m", "e", ":">>
BarWord == <<" ", "b", "a", "r">>

\* The ends j of the runs of digits alt[i..j] that " bar" follows:
\* re.search(r"(\d+) bars?", alt) matches the leftmost start with the longest run.
BarsMatches(alt) ==
  {m \in (1..Len(alt)) \X (1..Len(alt)) :
     /\ m[1] <= m[2]
     /\ \A n \in m[1]..m[2] : IsDigit(alt[n])
     /\ m[2] + Len(BarWord) <= Len(alt)
     /\ SubSeq(alt, m[2] + 1, m[2] + Len(BarWord)) = BarWord}

\* The mutant of WithSignalBars that never finds a signal strength.
WithSignalBars_Never(res, alt) == res

\* The wifi branch's signal strength: set only when the cell has an image
\* with a non-empty alt text that the pattern matches.
WithSignalBars(res, alt) ==
  IF alt # <<>> /\ BarsMatches(alt) # {}
  THEN LET m == CHOOSE m \in BarsMatches(alt) :
                  \A o \in BarsMatches(alt) : m[1] <= o[1]
       IN Put(res, "signal_bars", IntOf(SubSeq(alt, m[1], m[2])))
  ELSE res

\* The mutant of ScanWords that keeps the first band and the first name.
RECURSIVE ScanWords_FirstWins(_, _, _)
ScanWords_FirstWins(lines, i, res) ==
  IF i > Len(lines) THEN res
  ELSE IF Contains(lines[i], GHzWord)
       THEN ScanWords_FirstWins(lines, i + 1,
                      IF i > 1 /\ ~HasKey(res, "band")
                      THEN Put(res, "band", lines[i - 1] \o <<" ">> \o lines[i])
                      ELSE res)
       ELSE IF lines[i] = NameWord
            THEN ScanWords_FirstWins(lines, i + 1,
                           IF i + 1 <= Len(lines) /\ ~HasKey(res, "network_name")
                           THEN Put(res, "network_name", lines[i + 1])
                           ELSE res)
            ELSE ScanWords_FirstWins(lines, i + 1, res)

\* for i, line in enumerate(lines): the band and the network name
RECURSIVE ScanWords(_, _, _)
ScanWords(lines, i, res) ==
  IF i > Len(lines) THEN res
  ELSE IF Contains(lines[i], GHzWord)
       THEN ScanWords(lines, i + 1,
                      IF i > 1
                      THEN Put(res, "band", lines[i - 1] \o <<" ">> \o lines[i])
                      ELSE res)
       ELSE IF lines[i] = NameWord
            THEN ScanWords(lines, i + 1,
                           IF i + 1 <= Len(lines)
                           THEN Put(res, "network_name", lines[i + 1])
                           ELSE res)
            ELSE ScanWords(lines, i + 1, res)

\* The mutant of ParseConnectionType that looks for "Wi-Fi" first.
ParseConnectionType_WifiFirst(text, alt) ==
  LET res == Put(EmptyDevice, "raw", text) IN
  IF Contains(text, WiFiWord)
  THEN ScanWords(Split(text), 1, WithSignalBars(Put(res, "type", "wifi"), alt))
  ELSE IF Contains(text, EthernetWord)
       THEN Put(Put(res, "type", "ethernet"), "interface", Strip(text))
       ELSE res

\* _parse_connection_type(text, td_element)
ParseConnectionType(text, alt) ==
  LET res == Put(EmptyDevice, "raw", text) IN
  IF Contains(text, EthernetWord)
  THEN Put(Put(res, "type", "ethernet"), "interface", Strip(text))
  ELSE IF Contains(text, WiFiWord)
       THEN ScanWords(Split(text), 1, WithSignalBars(Put(res, "type", "wifi"), alt))
       ELSE res

\* The mutant of ApplySpeed that stores an empty speed too.
ApplySpeed_Always(cur, value) == Put(cur, "connection_speed", value)

\* The "Connection Speed" branch: if value: current_device[...] = value
ApplySpeed(cur, value) ==
  IF value # <<>> THEN Put(cur, "connection_speed", value) ELSE cur

\* The branch on the label of a row that has both cells.
ApplyRow(cur, row) ==
  LET value == CellValue(row) IN
  CASE row.label = "MAC Address" ->
         Put(Put(cur, "mac", MacKey(value)), "mac_formatted", MacFormatted(value))
    [] row.label = "IPv4 Address / Name" -> ApplyIpName(cur, value)
    [] row.label = "Name" -> Put(cur, "name", value)
    [] row.label = "Status" ->
         Put(Put(cur, "status", value), "is_online", IsOnline(value))
    [] row.label = "Last Activity" -> Put(cur, "last_activity", value)
    [] row.label = "Allocation" -> Put(cur, "allocation", value)
    [] row.label = "Connection Type" ->
         \* td.get_text(" ", strip=True) of a cell holding one text node
         Put(cur, "connection_type", ParseConnectionType(Strip(row.text), row.alt))
    [] row.label = "Connection Speed" -> ApplySpeed(cur, value)
    [] OTHER -> cur

\* The mutant of Committable that commits any non-empty accumulator.
Committable_NonEmpty(cur) == DOMAIN cur # {}

\* if current_device and "mac" in current_device
Committable(cur) == HasKey(cur, "mac")

\* The mutant of CommitLast that forgets the device still open at the end.
CommitLast_Forgotten(cur, devices) == devices

\* After the scan: "Don't forget the last device".
CommitLast(cur, devices) ==
  IF Committable(cur) THEN Append(devices, cur) ELSE devices

RECURSIVE ParseRows(_, _, _, _)
ParseRows(rows, i, cur, devices) ==
  IF i > Len(rows)
  THEN CommitLast(cur, devices)
  ELSE LET row == rows[i] IN
       IF ~row.th \/ ~row.td
       THEN IF row.hr /\ Committable(cur)
            THEN ParseRows(rows, i + 1, EmptyDevice, Append(devices, cur))
            ELSE ParseRows(rows, i + 1, cur, devices)
       ELSE ParseRows(rows, i + 1, ApplyRow(cur, row), devices)

ParseDevices(rows) == ParseRows(rows, 1, EmptyDevice, <<>>)

(***************************************************************************)
(* Pages and responses of the router.                                      *)
(***************************************************************************)
MacRowUpper == DataRow("MAC Address", <<"A", "A", ":", "b", "B">>)
MacRowPlain == DataRow("MAC Address", <<"a", "a", "b", "b">>)
MacRowDash  == DataRow("MAC Address", <<" ", "0", "-", "F", ":", "1">>)
NameRow     == DataRow("Name", <<"p", "c">>)
StatusRow   == DataRow("Status", <<"O", "n">>)
OtherRow    == DataRow("Firmware", <<"1">>)

\* The rows the parser's input pages are built from.
RowKinds ==
  {SeparatorRow, PlainRow, MacRowUpper, MacRowPlain, MacRowDash,
   NameRow, StatusRow, OtherRow}

RECURSIVE SeqsUpTo(_, _)
SeqsUpTo(S, n) ==
  IF n = 0 THEN {<<>>}
  ELSE LET shorter == SeqsUpTo(S, n - 1) IN
       shorter \cup {Append(p, r) : p \in {q \in shorter : Len(q) = n - 1}, r \in S}

\* Every page of at most MaxRows rows.
AllPages == SeqsUpTo(RowKinds, MaxRows)

\* The device pages the router serves in the client's runs: no device, two
\* devices without a trailing marker, the same MAC listed twice.
ClientPages ==
  << <<PlainRow>>,
     <<MacRowUpper, NameRow, StatusRow, SeparatorRow, MacRowDash>>,
     <<MacRowUpper, SeparatorRow, MacRowPlain, SeparatorRow>> >>

\* A response to GET /cgi-bin/devices.ha (allow_redirects=False), or the
\* exception raised instead.  locLogin: the Location header contains "login"
\* (case-insensitive); login, password: the body contains the word
\* (case-insensitive); devList: the body contains "Device List"; page: the
\* body's table, an index into ClientPages (0: none).
DevResponse(exc, status, locLogin, login, password, devList, page) ==
  [exc |-> exc, status |-> status, locLogin |-> locLogin, login |-> login,
   password |-> password, devList |-> devList, page |-> page]

DevResponses ==
  {DevResponse(e, 0, FALSE, FALSE, FALSE, FALSE, 0) : e \in Exceptions}
  \cup {DevResponse("none", s, l, FALSE, FALSE, FALSE, 0) :
          s \in {302, 303}, l \in BOOLEAN}
  \cup {DevResponse("none", 500, FALSE, FALSE, FALSE, FALSE, 0)}
  \cup {DevResponse("none", 200, FALSE, lg, pw, dl, p) :
          lg \in BOOLEAN, pw \in BOOLEAN, dl \in BOOLEAN,
          p \in 1..Len(ClientPages)}

\* The rows of a response's body.
BodyRows(resp) == IF resp.page = 0 THEN <<>> ELSE ClientPages[resp.page]

\* "Device List" in text or "MAC Address" in text
HasDeviceMarker(resp) ==
  resp.devList \/ \E i \in 1..Len(BodyRows(resp)) :
                    BodyRows(resp)[i].th /\ BodyRows(resp)[i].label = "MAC Address"

\* A response to GET of the root page (allow_redirects=True).  urlHome: the
\* final URL contains "home.ha"; devStatus: the body contains "Device Status";
\* cookie: the SessionID cookie of the response, None without one; form: the
\* page has a <form>.
RootResponses ==
  {[exc |-> e, status |-> 0, urlHome |-> FALSE, devStatus |-> FALSE,
    cookie |-> None, form |-> FALSE] : e \in Exceptions}
  \cup {[exc |-> "none", status |-> 500, urlHome |-> b, devStatus |-> b,
         cookie |-> IF b THEN "t2" ELSE None, form |-> b] : b \in BOOLEAN}
  \cup {[exc |-> "none", status |-> 200, urlHome |-> u, devStatus |-> d,
         cookie |-> c, form |-> f] :
          u \in BOOLEAN, d \in BOOLEAN, c \in Tokens \cup {None}, f \in BOOLEAN}

\* A response to the login POST (allow_redirects=False).  invalid: the body
\* contains "incorrect" or "invalid" (case-insensitive).
PostResponses ==
  {[exc |-> e, status |-> 0, cookie |-> None, invalid |-> FALSE] : e \in Exceptions}
  \cup {[exc |-> "none", status |-> s, cookie |-> c, invalid |-> v] :
          s \in {200, 302, 303, 401}, c \in Tokens \cup {None}, v \in BOOLEAN}

\* A response to the follow-up GET of the redirect target.
FollowResponses ==
  {[exc |-> e, cookie |-> None] : e \in Exceptions}
  \cup {[exc |-> "none", cookie |-> c] : c \in Tokens \cup {None}}

(***************************************************************************)
(* State.                                                                  *)
(***************************************************************************)
VARIABLES
  access_code,     \* the client was built with a (non-empty) access code
  session_id,      \* ATTRouterClient.session_id: a token or None
  auth_failures,   \* ATTRouterClient._auth_failures
  auth_session_id, \* ATTRouterAuth.session_id
  pc,              \* where the running get_devices call is
  depth,           \* get_devices frames nested inside the caller's call
  result,          \* what the last get_devices call returned
  html,            \* the rows of the page handed to _parse_devices
  data,            \* coordinator.data: the published records, keyed by mac
  startToken,      \* history: session_id when the caller's call started
  authCalls,       \* history: authenticate calls made by this call
  validateCalls,   \* history: validate_session calls made by this call
  fetchLog,        \* history: the class of each device-list response of this call
  allAuthOk,       \* history: every authenticate of this call returned a token
  lastResp,        \* history: the response the latest step received, if any
  logged,          \* history: what authenticate logged as an error in the latest step
  authReqs,        \* history: the requests of the latest authenticate call, in order
  entry,           \* entry.data of the config entry, empty before the flow creates it
  setup            \* how the device tracker's async_setup_entry ended

vars ==
  <<access_code, session_id, auth_failures, auth_session_id, pc, depth, result,
    html, data, startToken, authCalls, validateCalls, fetchLog, allAuthOk,
    lastResp, logged, authReqs, entry, setup>>

\* The latest step received no response.
NoResponse == [kind |-> "none", r |-> [exc |-> "none"]]

\* The response r, received by the step of the given kind: "validate", "fetch",
\* "root", "post" or "follow".
Received(kind, r) == [kind |-> kind, r |-> r]

\* A step without a round trip of its own.
NoRoundTrip == lastResp' = NoResponse /\ logged' = "none"

\* What get_devices gives its caller.
Pending == [kind |-> "pending", devices |-> <<>>]
NoneResult == [kind |-> "none", devices |-> <<>>]
Raised == [kind |-> "raised", devices |-> <<>>]
ListResult(devices) == [kind |-> "list", devices |-> devices]

\* self.auth = ATTRouterAuth(session, host) if access_code else None
HasAuth(ac) == ac

(***************************************************************************)
(* validate_session                                                        *)
(***************************************************************************)
\* The mutant of ValidateSession that looks for the login markers first.
ValidateSession_LoginFirst(resp) ==
  IF resp.exc # "none" THEN FALSE
  ELSE IF resp.status \in {302, 303} /\ resp.locLogin THEN FALSE
  ELSE IF resp.status = 200
       THEN IF resp.login \/ resp.password THEN FALSE
            ELSE TRUE
       ELSE FALSE

ValidateSession(resp) ==
  IF resp.exc # "none" THEN FALSE
  ELSE IF resp.status \in {302, 303} /\ resp.locLogin THEN FALSE
  ELSE IF resp.status = 200
       THEN IF HasDeviceMarker(resp) THEN TRUE
            ELSE IF resp.login \/ resp.password THEN FALSE
            ELSE TRUE
       ELSE FALSE

(***************************************************************************)
(* get_devices and _ensure_authenticated                                   *)
(***************************************************************************)
\* The mutant of Propagate in which a retrying frame drops the value of the
\* nested call (a missing "return").
Propagate_Dropped(d, r) == IF d > 0 THEN NoneResult ELSE r

\* "return await self.get_devices()": the value of the innermost frame is
\* returned unchanged through the d frames that retried.
Propagate(d, r) == r

\* The mutant of AuthCatches that handles aiohttp.ClientError only.
AuthCatches_ClientErrorOnly(e) == e = "client_error"

\* authenticate_with_access_code's except clauses: asyncio.TimeoutError,
\* aiohttp.ClientError, Exception.
AuthCatches(e) == e \in {"timeout"} \cup {"client_error"} \cup Exceptions

\* get_devices's except clauses around the fetch: aiohttp.ClientError, Exception.
FetchCatches(e) == e \in {"client_error"} \cup Exceptions

\* An exception leaving _ensure_authenticated leaves get_devices at its line
\* 64, outside the try: the caller sees it, unless the frame was entered from a
\* retry, whose call sits inside the retrying frame's try.
Escapes(d) == IF d = 0 THEN Raised ELSE NoneResult

Finish(r) ==
  /\ pc' = "done"
  /\ result' = Propagate(depth, r)

\* The caller starts get_devices.
GetDevices ==
  /\ pc \in {"idle", "done"}
  /\ pc' = "ensure"
  /\ depth' = 0
  /\ result' = Pending
  /\ startToken' = session_id
  /\ authCalls' = 0
  /\ validateCalls' = 0
  /\ fetchLog' = <<>>
  /\ allAuthOk' = TRUE
  /\ NoRoundTrip
  /\ UNCHANGED <<access_code, session_id, auth_failures, auth_session_id, html, data,
                 authReqs>>
  /\ UNCHANGED <<entry, setup>>

\* The mutant of LegacyUsable that takes any state for a session.
LegacyUsable_Always(sid) == TRUE

\* return self.session_id is not None
LegacyUsable(sid) == sid # None

\* _ensure_authenticated up to its first await (or its return, in legacy mode).
EnsureAuthenticated ==
  /\ pc = "ensure"
  /\ IF access_code /\ ~Truthy(session_id)
     THEN /\ pc' = "auth_root"
          /\ authCalls' = authCalls + 1
          /\ authReqs' = <<"GET root">>
          /\ UNCHANGED <<validateCalls, result>>
     ELSE IF HasAuth(access_code) /\ Truthy(session_id)
     THEN /\ pc' = "validate"
          /\ validateCalls' = validateCalls + 1
          /\ UNCHANGED <<authCalls, result, authReqs>>
     ELSE /\ IF LegacyUsable(session_id)
             THEN pc' = "fetch" /\ UNCHANGED result
             ELSE Finish(NoneResult)
          /\ UNCHANGED <<authCalls, validateCalls, authReqs>>
  /\ NoRoundTrip
  /\ UNCHANGED <<access_code, session_id, auth_failures, auth_session_id, depth,
                 html, data, startToken, fetchLog, allAuthOk>>
  /\ UNCHANGED <<entry, setup>>

\* The response of validate_session's GET arrives.
ValidateReturns ==
  /\ pc = "validate"
  /\ \E resp \in DevResponses :
       /\ lastResp' = Received("validate", resp)
       /\ IF ValidateSession(resp)
          THEN pc' = "fetch" /\ UNCHANGED <<authCalls, authReqs>>
          ELSE /\ pc' = "auth_root"
               /\ authCalls' = authCalls + 1
               /\ authReqs' = <<"GET root">>
  /\ logged' = "none"
  /\ UNCHANGED <<access_code, session_id, auth_failures, auth_session_id, depth,
                 result, html, data, startToken, validateCalls, fetchLog, allAuthOk>>
  /\ UNCHANGED <<entry, setup>>

(***************************************************************************)
(* authenticate_with_access_code, one action per round trip, and what      *)
(* _ensure_authenticated does with its value.                              *)
(***************************************************************************)
\* The mutant of AuthSucceeded that goes on whatever authenticate returned.
AuthSucceeded_Always(tok) == TRUE

\* if self.session_id:
AuthSucceeded(tok) == Truthy(tok)

\* The mutant of AfterLogin that leaves the retry counter as it is.
AfterLogin_Kept(failures) == failures

\* if self.session_id: self._auth_failures = 0
AfterLogin(failures) == 0

\* self.session_id = await self.auth.authenticate_with_access_code(...);
\* if self.session_id: self._auth_failures = 0; return True / return False
AuthReturns(tok) ==
  /\ session_id' = tok
  /\ allAuthOk' = (allAuthOk /\ Truthy(tok))
  /\ IF AuthSucceeded(tok)
     THEN auth_failures' = AfterLogin(auth_failures) /\ pc' = "fetch" /\ UNCHANGED result
     ELSE UNCHANGED auth_failures /\ Finish(NoneResult)

\* The mutant of Remembered in which the authenticator stores nothing.
Remembered_Nothing(cookie) == None

\* self.session_id = cookie.value: the authenticator's own copy of the token.
Remembered(cookie) == cookie

\* What each except clause of authenticate_with_access_code logs.
ExceptionLog(e) ==
  CASE e = "timeout" -> "login timeout"
    [] e = "client_error" -> "login connection error"
    [] OTHER -> "unexpected login error"

\* An exception inside authenticate_with_access_code: logged and None
\* returned when an except clause matches it, raised to the caller otherwise.
AuthFails(e) ==
  IF AuthCatches(e)
  THEN AuthReturns(None) /\ logged' = ExceptionLog(e)
  ELSE /\ pc' = "done"
       /\ result' = Escapes(depth)
       /\ allAuthOk' = FALSE
       /\ logged' = "none"
       /\ UNCHANGED <<session_id, auth_failures>>

\* The mutant of AlreadyLoggedIn that looks at the final URL only.
AlreadyLoggedIn_UrlOnly(resp) == resp.urlHome

\* "home.ha" in str(response.url) or "Device Status" in html
AlreadyLoggedIn(resp) == resp.urlHome \/ resp.devStatus

\* The mutant of FormFound that takes every page for a login page.
FormFound_Always(resp) == TRUE

\* form = soup.find("form"); if not form: return None
FormFound(resp) == resp.form

\* Step 1: the root page arrives.
AuthRootPage ==
  /\ pc = "auth_root"
  /\ \E resp \in RootResponses :
       /\ lastResp' = Received("root", resp)
       /\ IF resp.exc # "none"
          THEN AuthFails(resp.exc) /\ UNCHANGED <<auth_session_id, authReqs>>
          ELSE IF resp.status # 200
          THEN /\ AuthReturns(None)
               /\ logged' = "failed to get login page"
               /\ UNCHANGED <<auth_session_id, authReqs>>
          ELSE IF AlreadyLoggedIn(resp) /\ resp.cookie # None
          THEN /\ AuthReturns(resp.cookie)
               /\ auth_session_id' = Remembered(resp.cookie)
               /\ logged' = "none"
               /\ UNCHANGED authReqs
          ELSE IF ~FormFound(resp)
          THEN /\ AuthReturns(None)
               /\ logged' = "login form not found"
               /\ UNCHANGED <<auth_session_id, authReqs>>
          ELSE /\ pc' = "auth_post"
               /\ authReqs' = Append(authReqs, "POST login")
               /\ logged' = "none"
               /\ UNCHANGED <<session_id, auth_failures, auth_session_id, result,
                              allAuthOk>>
  /\ UNCHANGED <<access_code, depth, html, data, startToken, authCalls,
                 validateCalls, fetchLog>>
  /\ UNCHANGED <<entry, setup>>

\* The mutant of PostRedirected that knows 302 only.
PostRedirected_Only302(resp) == resp.status = 302

\* if login_response.status in [302, 303]
PostRedirected(resp) == resp.status \in {302, 303}

\* The mutant of PostFailureLog that reads the body whatever the status.
PostFailureLog_AnyStatus(resp) ==
  IF resp.invalid THEN "invalid device access code" ELSE "no session cookie received"

\* "Check response body for errors": what is logged when the login gave no
\* session cookie, in the POST response or in the follow-up's.
PostFailureLog(resp) ==
  IF resp.status = 200
  THEN IF resp.invalid
       THEN "invalid device access code"
       ELSE "no session cookie received"
  ELSE "none"

\* Step 2: the response to the login POST arrives.
AuthLoginPost ==
  /\ pc = "auth_post"
  /\ \E resp \in PostResponses :
       /\ lastResp' = Received("post", resp)
       /\ IF resp.exc # "none"
          THEN AuthFails(resp.exc) /\ UNCHANGED <<auth_session_id, authReqs>>
          ELSE IF resp.cookie # None
          THEN /\ AuthReturns(resp.cookie)
               /\ auth_session_id' = Remembered(resp.cookie)
               /\ logged' = "none"
               /\ UNCHANGED authReqs
          ELSE IF PostRedirected(resp)
          THEN /\ pc' = "auth_follow"
               /\ authReqs' = Append(authReqs, "GET redirect")
               /\ logged' = "none"
               /\ UNCHANGED <<session_id, auth_failures, auth_session_id, result,
                              allAuthOk>>
          ELSE /\ AuthReturns(None)
               /\ logged' = PostFailureLog(resp)
               /\ UNCHANGED <<auth_session_id, authReqs>>
  /\ UNCHANGED <<access_code, depth, html, data, startToken, authCalls,
                 validateCalls, fetchLog>>
  /\ UNCHANGED <<entry, setup>>

\* The response to the follow-up GET of the redirect target arrives.  It is
\* reached only from a 302/303 login response, for which the body check of
\* line 146 (status == 200) logs nothing.
AuthFollowRedirect ==
  /\ pc = "auth_follow"
  /\ \E resp \in FollowResponses :
       /\ lastResp' = Received("follow", resp)
       /\ IF resp.exc # "none"
          THEN AuthFails(resp.exc) /\ UNCHANGED auth_session_id
          ELSE IF resp.cookie # None
          THEN /\ AuthReturns(resp.cookie)
               /\ auth_session_id' = Remembered(resp.cookie)
               /\ logged' = "none"
          ELSE /\ AuthReturns(None)
               /\ logged' = "none"
               /\ UNCHANGED auth_session_id
  /\ UNCHANGED <<access_code, depth, html, data, startToken, authCalls,
                 validateCalls, fetchLog, authReqs>>
  /\ UNCHANGED <<entry, setup>>

(***************************************************************************)
(* The device-list fetch of get_devices.                                   *)
(***************************************************************************)
\* The mutant of FetchClass that takes every redirect for a login redirect.
FetchClass_AnyRedirect(resp) ==
  IF resp.exc # "none" THEN "exception"
  ELSE IF resp.status \in {302, 303} THEN "redirect_login"
  ELSE IF resp.status # 200 THEN "http_error"
  ELSE IF resp.login /\ resp.password THEN "login_page"
  ELSE "ok"

\* The mutant of FetchClass for which one of the two words makes a login page.
FetchClass_LoginOrPassword(resp) ==
  IF resp.exc # "none" THEN "exception"
  ELSE IF resp.status \in {302, 303} /\ resp.locLogin THEN "redirect_login"
  ELSE IF resp.status # 200 THEN "http_error"
  ELSE IF resp.login \/ resp.password THEN "login_page"
  ELSE "ok"

\* How get_devices reads the response, in the order of its tests.
FetchClass(resp) ==
  IF resp.exc # "none" THEN "exception"
  ELSE IF resp.status \in {302, 303} /\ resp.locLogin THEN "redirect_login"
  ELSE IF resp.status # 200 THEN "http_error"
  ELSE IF resp.login /\ resp.password THEN "login_page"
  ELSE "ok"

ExpiryClasses == {"redirect_login", "login_page"}

\* The mutant of CanRetry that does not ask for an authenticator.
CanRetry_AnyMode(ac, failures) == failures < 2

\* if self.auth and self._auth_failures < 2
CanRetry(ac, failures) == HasAuth(ac) /\ failures < 2

\* The response of the device-list GET arrives.
FetchReturns ==
  /\ pc = "fetch"
  /\ \E resp \in DevResponses :
       LET c == FetchClass(resp) IN
       /\ fetchLog' = Append(fetchLog, c)
       /\ lastResp' = Received("fetch", resp)
       /\ IF c = "exception"
          THEN /\ pc' = "done"
               /\ result' = IF FetchCatches(resp.exc)
                            THEN Propagate(depth, NoneResult) ELSE Escapes(depth)
               /\ UNCHANGED <<session_id, auth_failures, depth, html>>
          ELSE IF c \in ExpiryClasses
          THEN IF CanRetry(access_code, auth_failures)
               THEN /\ auth_failures' = auth_failures + 1
                    /\ session_id' = None
                    /\ UNCHANGED html
                    /\ IF depth < MaxDepth
                       THEN pc' = "ensure" /\ depth' = depth + 1 /\ UNCHANGED result
                       ELSE \* RecursionError, caught by "except Exception"
                            Finish(NoneResult) /\ UNCHANGED depth
               ELSE Finish(NoneResult) /\ UNCHANGED <<session_id, auth_failures, depth, html>>
          ELSE IF c = "http_error"
          THEN Finish(NoneResult) /\ UNCHANGED <<session_id, auth_failures, depth, html>>
          ELSE /\ auth_failures' = 0
               /\ html' = BodyRows(resp)
               /\ Finish(ListResult(ParseDevices(BodyRows(resp))))
               /\ UNCHANGED <<session_id, depth>>
  /\ logged' = "none"
  /\ UNCHANGED <<access_code, auth_session_id, data, startToken, authCalls,
                 validateCalls, allAuthOk, authReqs>>
  /\ UNCHANGED <<entry, setup>>

(***************************************************************************)
(* async_update_data (device_tracker.py): what the poll publishes.         *)
(***************************************************************************)
\* The mutant of ToDict in which the first record of a mac is kept.
ToDict_FirstWins(devices) ==
  LET withMac == {i \in 1..Len(devices) : HasKey(devices[i], "mac")} IN
  [m \in {devices[i]["mac"] : i \in withMac} |->
     devices[CHOOSE i \in withMac :
               /\ devices[i]["mac"] = m
               /\ \A j \in withMac : devices[j]["mac"] = m => i <= j]]

\* {device["mac"]: device for device in devices if "mac" in device}
ToDict(devices) ==
  LET withMac == {i \in 1..Len(devices) : HasKey(devices[i], "mac")} IN
  [m \in {devices[i]["mac"] : i \in withMac} |->
     devices[CHOOSE i \in withMac :
               /\ devices[i]["mac"] = m
               /\ \A j \in withMac : devices[j]["mac"] = m => j <= i]]

\* async_update_data after get_devices returned: {} for None, else the dict.
AsyncUpdateData ==
  /\ pc = "done"
  /\ result.kind \in {"none", "list"}
  /\ data' = IF result.kind = "none" THEN EmptyDevice ELSE ToDict(result.devices)
  /\ pc' = "idle"
  /\ NoRoundTrip
  /\ UNCHANGED <<access_code, session_id, auth_failures, auth_session_id, depth,
                 result, html, startToken, authCalls, validateCalls, fetchLog,
                 allAuthOk, authReqs>>
  /\ UNCHANGED <<entry, setup>>

(***************************************************************************)
(* Specifications.                                                         *)
(***************************************************************************)
Init ==
  /\ access_code \in BOOLEAN
  /\ session_id \in {None, "", "t1"}
  /\ auth_failures = 0
  /\ auth_session_id = None
  /\ pc = "idle"
  /\ depth = 0
  /\ result = Pending
  /\ html = <<>>
  /\ data = EmptyDevice
  /\ startToken = None
  /\ authCalls = 0
  /\ validateCalls = 0
  /\ fetchLog = <<>>
  /\ allAuthOk = TRUE
  /\ lastResp = NoResponse
  /\ logged = "none"
  /\ authReqs = <<>>
  /\ entry = EmptyDevice
  /\ setup = "none"

Next ==
  \/ GetDevices
  \/ EnsureAuthenticated
  \/ ValidateReturns
  \/ AuthRootPage
  \/ AuthLoginPost
  \/ AuthFollowRedirect
  \/ FetchReturns
  \/ AsyncUpdateData

Spec == Init /\ [][Next]_vars

\* _parse_devices applied to every page of at most MaxRows rows, and the
\* records published from its result.
InitParse ==
  /\ access_code = FALSE
  /\ session_id = "t1"
  /\ auth_failures = 0
  /\ auth_session_id = None
  /\ pc = "parse"
  /\ depth = 0
  /\ result = Pending
  /\ html \in AllPages
  /\ data = EmptyDevice
  /\ startToken = "t1"
  /\ authCalls = 0
  /\ validateCalls = 0
  /\ fetchLog = <<>>
  /\ allAuthOk = TRUE
  /\ lastResp = NoResponse
  /\ logged = "none"
  /\ authReqs = <<>>
  /\ entry = EmptyDevice
  /\ setup = "none"

\* return self._parse_devices(html)
ParsePage ==
  /\ pc = "parse"
  /\ result' = ListResult(ParseDevices(html))
  /\ pc' = "done"
  /\ UNCHANGED <<access_code, session_id, auth_failures, auth_session_id, depth,
                 html, data, startToken, authCalls, validateCalls, fetchLog,
                 allAuthOk, lastResp, logged, authReqs>>
  /\ UNCHANGED <<entry, setup>>

NextParse ==
  \/ ParsePage
  \/ AsyncUpdateData

SpecParse == InitParse /\ [][NextParse]_vars

(***************************************************************************)
(* Properties of get_devices.                                              *)
(***************************************************************************)
AllFetchesExpired == \A i \in 1..Len(fetchLog) : fetchLog[i] \in ExpiryClasses

\* C1: for an access-code client, when the router accepts every login and
\* answers every device-list fetch with a session-expiry signal, one
\* get_devices call re-authenticates after an expiry at most 2 times and
\* returns None.
C1_ReauthAtMostTwice ==
  (access_code /\ allAuthOk /\ AllFetchesExpired) =>
    /\ depth <= 2
    /\ pc = "done" => result = NoneResult

\* C2: whatever the router answers, timeouts and transport errors included,
\* get_devices returns a list of records or None; no exception reaches its
\* caller.
C2_NeverRaises ==
  /\ result.kind # "raised"
  /\ pc = "done" => result.kind \in {"none", "list"}

\* C2 witness: a retried call whose re-issued fetch raised returned None.
C2_Witness ==
  /\ pc = "done"
  /\ depth >= 1
  /\ authCalls >= 1
  /\ fetchLog[Len(fetchLog)] = "exception"
  /\ result = NoneResult

\* C3: an access-code client holding a token whose first fetch is a login
\* redirect and whose re-issued fetch, after re-authentication, is a device
\* page returns the records parsed from that second page, with _auth_failures 0.
C3_ExpiredThenValid ==
  (/\ pc = "done"
   /\ access_code
   /\ Truthy(startToken)
   /\ fetchLog = <<"redirect_login", "ok">>) =>
    /\ result = ListResult(ParseDevices(html))
    /\ auth_failures = 0

\* C3 witness: such a call returned the two devices of the second page.
C3_Witness ==
  /\ pc = "done"
  /\ access_code
  /\ Truthy(startToken)
  /\ fetchLog = <<"redirect_login", "ok">>
  /\ html = ClientPages[2]
  /\ Len(result.devices) = 2

\* C4: a client built without an access code never calls authenticate or
\* validate_session and never retries; a login redirect or login page makes
\* get_devices return None.
C4_ProvidedTokenNeverAuthenticates ==
  ~access_code =>
    /\ authCalls = 0
    /\ validateCalls = 0
    /\ depth = 0
    /\ pc \notin {"auth_root", "auth_post", "auth_follow", "validate"}
    /\ Len(fetchLog) <= 1
    /\ (pc = "done" /\ fetchLog # <<>> /\ fetchLog[1] \in ExpiryClasses) =>
         result = NoneResult

\* C4 witness: a token-only client got a login redirect and returned None.
C4_Witness ==
  /\ ~access_code
  /\ startToken = "t1"
  /\ pc = "done"
  /\ fetchLog = <<"redirect_login">>
  /\ result = NoneResult

\* The call started without a session and could not establish one: no token
\* and no access code, or no usable token and the first authenticate failed.
NoSessionAtStart ==
  /\ pc \notin {"idle", "parse"}
  /\ depth = 0
  /\ \/ ~access_code /\ startToken = None
     \/ access_code /\ ~Truthy(startToken) /\ authCalls >= 1 /\ ~allAuthOk

\* C5: when no session can be established at the start of get_devices, it
\* returns None without issuing the device-list GET and without a second
\* authenticate call.
C5_NoSessionNoFetch ==
  NoSessionAtStart =>
    /\ fetchLog = <<>>
    /\ authCalls <= 1
    /\ pc \in {"ensure", "done"}
    /\ pc = "done" => result = NoneResult

\* C5 witness: the only authenticate of a call that started without a token
\* failed, and the call returned None.
C5_Witness ==
  /\ access_code
  /\ startToken = None
  /\ pc = "done"
  /\ depth = 0
  /\ authCalls = 1
  /\ ~allAuthOk
  /\ result = NoneResult

\* C6: after a get_devices call that returned a list, _auth_failures is 0 and
\* the client holds a session token.
C6_ListMeansSession ==
  result.kind = "list" =>
    /\ auth_failures = 0
    /\ session_id # None
    /\ access_code => Truthy(session_id)

\* C6 witness: a call that retried twice returned a list.
C6_Witness ==
  /\ pc = "done"
  /\ result.kind = "list"
  /\ depth = 2
  /\ Len(result.devices) > 0

(***************************************************************************)
(* Properties of _parse_devices, read off the page itself.                 *)
(***************************************************************************)
\* The row is a device boundary marker for the scan.
IsMarker(row) == (~row.th \/ ~row.td) /\ row.hr

IsMacRow(row) == row.th /\ row.td /\ row.label = "MAC Address"

\* The first rows of the page's blocks: a block runs from the row after a
\* marker (or the first row) to the next marker (or the end of the page).
BlockStarts(rows) ==
  {s \in 1..(Len(rows) + 1) : s = 1 \/ IsMarker(rows[s - 1])}

\* The index after the last row of the block starting at s.
BlockEnd(rows, s) ==
  IF \E i \in s..Len(rows) : IsMarker(rows[i])
  THEN CHOOSE i \in s..Len(rows) :
         IsMarker(rows[i]) /\ \A j \in s..(i - 1) : ~IsMarker(rows[j])
  ELSE Len(rows) + 1

MacRowsOf(rows, s) == {j \in s..(BlockEnd(rows, s) - 1) : IsMacRow(rows[j])}

\* The blocks that contain a MAC Address row, by their first row.
MacBlocks(rows) == {s \in BlockStarts(rows) : MacRowsOf(rows, s) # {}}

\* The k-th smallest element of a finite set of numbers.
KthOf(S, k) == CHOOSE x \in S : Cardinality({y \in S : y < x}) = k - 1

\* The text of the last MAC Address row of the block starting at s, trimmed.
LastMacText(rows, s) ==
  LET j == CHOOSE j \in MacRowsOf(rows, s) : \A i \in MacRowsOf(rows, s) : i <= j
  IN Strip(rows[j].text)

UpperChars == {UpperCase[i] : i \in 1..Len(UpperCase)}

Parsed == result.kind = "list"

\* C7: every record _parse_devices returns has a mac key, and a block without
\* a MAC Address row yields no record, whether a marker or the end of the
\* document ends it: there are as many records as blocks with such a row.
C7_RecordsHaveMac ==
  Parsed =>
    /\ \A i \in 1..Len(result.devices) : HasKey(result.devices[i], "mac")
    /\ Len(result.devices) = Cardinality(MacBlocks(html))

\* C7 witness: a page of two blocks without a MAC Address row, the first
\* ended by a marker and the second by the end of the page, gave no record.
C7_Witness ==
  /\ Parsed
  /\ html = <<NameRow, SeparatorRow, StatusRow>>
  /\ result.devices = <<>>

\* C8 as claimed: no two records of the returned list have the same mac.
C8_ListHasDistinctMacs ==
  Parsed =>
    \A i, j \in 1..Len(result.devices) :
      i # j => result.devices[i]["mac"] # result.devices[j]["mac"]

\* C8 as amended: the returned list has one record per block with a MAC
\* Address row, repeated MACs included; the mapping async_update_data
\* publishes has exactly the list's mac keys and, for each, the last record
\* of the list with that mac.
C8_PublishedOnePerMac ==
  (Parsed /\ pc = "idle") =>
    /\ Len(result.devices) = Cardinality(MacBlocks(html))
    /\ DOMAIN data = {result.devices[i]["mac"] : i \in 1..Len(result.devices)}
    /\ \A i \in 1..Len(result.devices) :
         (\A j \in (i + 1)..Len(result.devices) :
            result.devices[j]["mac"] # result.devices[i]["mac"])
         => data[result.devices[i]["mac"]] = result.devices[i]

\* C8 witness: a page listing one MAC in two blocks gave two records and one
\* published entry.
C8_Witness ==
  /\ Parsed
  /\ pc = "idle"
  /\ html = <<MacRowUpper, SeparatorRow, MacRowPlain>>
  /\ Len(result.devices) = 2
  /\ Cardinality(DOMAIN data) = 1

\* A page of N >= 1 blocks, each with a MAC Address row, separated by single
\* markers, with no marker before the first or after the last block.
WellFormedPage(rows) ==
  /\ rows # <<>>
  /\ ~IsMarker(rows[1])
  /\ ~IsMarker(rows[Len(rows)])
  /\ \A s \in BlockStarts(rows) : s <= Len(rows) /\ MacRowsOf(rows, s) # {}

\* C9: a page of N blocks, each with a MAC Address row, separated by markers
\* and with no trailing marker, gives exactly N records in document order
\* (the k-th record has the k-th block's MAC); a trailing marker changes
\* nothing.
C9_OneRecordPerBlock ==
  (Parsed /\ WellFormedPage(html)) =>
    /\ Len(result.devices) = Cardinality(BlockStarts(html))
    /\ \A k \in 1..Len(result.devices) :
         result.devices[k]["mac_formatted"]
           = Lower(LastMacText(html, KthOf(BlockStarts(html), k)))
    /\ ParseDevices(Append(html, SeparatorRow)) = result.devices

\* C9 witness: two blocks, one marker between them, none at the end, gave two
\* records.
C9_Witness ==
  /\ Parsed
  /\ html = <<MacRowUpper, NameRow, SeparatorRow, MacRowDash>>
  /\ Len(result.devices) = 2
  /\ result.devices[2]["mac"] = <<"0", "-", "f", "1">>

\* C10: a record's mac is lower-case and has no colon, its mac_formatted is
\* the lower-cased cell value with its separators, mac is mac_formatted
\* without its colons, and normalizing mac again gives mac.
C10_MacNormalized ==
  Parsed =>
    \A i \in 1..Len(result.devices) :
      LET r == result.devices[i] IN
      /\ \A n \in 1..Len(r["mac"]) : r["mac"][n] \notin UpperChars \cup {":"}
      /\ \E j \in 1..Len(html) :
           /\ IsMacRow(html[j])
           /\ Len(r["mac_formatted"]) = Len(Strip(html[j].text))
           /\ \A n \in 1..Len(r["mac_formatted"]) :
                /\ r["mac_formatted"][n] \notin UpperChars
                /\ LowerChar(Strip(html[j].text)[n]) = r["mac_formatted"][n]
      /\ r["mac"] = RemoveColons(r["mac_formatted"])
      /\ MacKey(r["mac"]) = r["mac"]

\* C10 witness: the cell "AA:bB" gave mac "aabb" and mac_formatted "aa:bb".
C10_Witness ==
  /\ Parsed
  /\ html = <<MacRowUpper>>
  /\ result.devices[1]["mac"] = <<"a", "a", "b", "b">>
  /\ result.devices[1]["mac_formatted"] = <<"a", "a", ":", "b", "b">>

(***************************************************************************)
(* The parser's fields: one device block, a MAC row followed by rows of    *)
(* the recognized labels whose cells are empty or hold a short text.       *)
(***************************************************************************)
\* How many rows follow the MAC row of a field page.
MaxFieldRows == 2

\* The fixed vocabulary of _parse_devices.
RecognizedLabels ==
  {"MAC Address", "IPv4 Address / Name", "Name", "Status", "Last Activity",
   "Allocation", "Connection Type", "Connection Speed"}

\* The texts of the value cells: empty, "On", " oN", "Off", "unknown".
CellTexts ==
  {<<>>, <<"O", "n">>, <<" ", "o", "N">>, <<"O", "f", "f">>,
   <<"u", "n", "k", "n", "o", "w", "n">>}

FieldRows == {DataRow(l, t) : l \in RecognizedLabels, t \in CellTexts}

FieldPages == {<<MacRowPlain>> \o p : p \in SeqsUpTo(FieldRows, MaxFieldRows)}

InitFields ==
  /\ access_code = FALSE
  /\ session_id = "t1"
  /\ auth_failures = 0
  /\ auth_session_id = None
  /\ pc = "parse"
  /\ depth = 0
  /\ result = Pending
  /\ html \in FieldPages
  /\ data = [m \in {} |-> EmptyDevice]
  /\ startToken = "t1"
  /\ authCalls = 0
  /\ validateCalls = 0
  /\ fetchLog = <<>>
  /\ allAuthOk = TRUE
  /\ lastResp = NoResponse
  /\ logged = "none"
  /\ authReqs = <<>>
  /\ entry = EmptyDevice
  /\ setup = "none"

SpecFields == InitFields /\ [][NextParse]_vars

\* The last row of the page handed to the parser.
LastRow == html[Len(html)]

\* The rows before the last one whose label is l and whose cell is not empty.
EarlierFilled(l) ==
  {i \in 1..(Len(html) - 1) : html[i].label = l /\ Strip(html[i].text) # <<>>}

\* The page has been parsed and its last row has an empty value cell.
EmptyCellParsed ==
  /\ pc = "done"
  /\ result.kind = "list"
  /\ Len(html) > 1
  /\ LastRow.text = <<>>

\* The one record of a field page.
TheRecord == result.devices[1]

\* The field a label stands for.
FieldOf(l) ==
  CASE l = "MAC Address" -> "mac"
    [] l = "IPv4 Address / Name" -> "ip"
    [] l = "Name" -> "name"
    [] l = "Status" -> "status"
    [] l = "Last Activity" -> "last_activity"
    [] l = "Allocation" -> "allocation"
    [] l = "Connection Type" -> "connection_type"
    [] l = "Connection Speed" -> "connection_speed"

\* An empty string (and not a dict, which has keys).
IsEmptyString(v) == DOMAIN v = {}

\* C11 as stated: a row with any recognized label and an empty value cell
\* leaves the label's field in the record, holding the empty string.
C11_EveryFieldEmptyString ==
  EmptyCellParsed =>
    /\ Len(result.devices) = 1
    /\ HasKey(TheRecord, FieldOf(LastRow.label))
    /\ IsEmptyString(TheRecord[FieldOf(LastRow.label)])

\* C11, amended: after a row with an empty value cell, parsing returns a list
\* (it does not raise) whose record holds the empty string in the label's field
\* for MAC Address (both forms), IPv4 Address / Name (the address), Name, Status
\* (with is_online false), Last Activity and Allocation; a Connection Type row
\* stores a dict whose only key is raw, with the empty string; a Connection
\* Speed row stores nothing: the field is there only if an earlier row of the
\* block gave a speed, and keeps that value.
C11_EmptyCellFields ==
  EmptyCellParsed =>
    /\ Len(result.devices) = 1
    /\ LET d == TheRecord
           l == LastRow.label
       IN CASE l = "MAC Address" -> d["mac"] = <<>> /\ d["mac_formatted"] = <<>>
            [] l = "Status" -> d["status"] = <<>> /\ d["is_online"] = FALSE
            [] l = "Connection Type" ->
                 /\ DOMAIN d["connection_type"] = {"raw"}
                 /\ d["connection_type"]["raw"] = <<>>
            [] l = "Connection Speed" ->
                 /\ HasKey(d, "connection_speed") <=> EarlierFilled(l) # {}
                 /\ \A i \in EarlierFilled(l) :
                      (\A j \in EarlierFilled(l) : j <= i)
                        => d["connection_speed"] = Strip(html[i].text)
            [] OTHER -> HasKey(d, FieldOf(l)) /\ d[FieldOf(l)] = <<>>

\* An empty Connection Speed cell after a filled one has been parsed.
C11_Witness ==
  /\ EmptyCellParsed
  /\ LastRow.label = "Connection Speed"
  /\ EarlierFilled("Connection Speed") # {}
  /\ Len(html) = 3

\* The last Status row of the page handed to the parser, 0 without one.
LastStatusRow ==
  LET S == {i \in 1..Len(html) : html[i].label = "Status"} IN
  IF S = {} THEN 0 ELSE CHOOSE i \in S : \A j \in S : j <= i

\* The text is "on", "On", "oN" or "ON".
EqualsOnIgnoringCase(v) ==
  Len(v) = 2 /\ v[1] \in {"o", "O"} /\ v[2] \in {"n", "N"}

\* C12: the record's status is the text of the Status cell as extracted,
\* unchanged, and is_online is true exactly when that text is "on" in any
\* letter case; "Off", the empty string and "unknown" give false.
C12_OnlineIffOn ==
  (pc = "done" /\ result.kind = "list" /\ LastStatusRow # 0) =>
    LET v == Strip(html[LastStatusRow].text) IN
    /\ Len(result.devices) = 1
    /\ TheRecord["status"] = v
    /\ TheRecord["is_online"] = EqualsOnIgnoringCase(v)

\* A Status cell " oN" has been parsed as online, after an "unknown" one.
C12_Witness ==
  /\ pc = "done"
  /\ Len(html) = 3
  /\ html[2] = DataRow("Status", <<"u", "n", "k", "n", "o", "w", "n">>)
  /\ html[3] = DataRow("Status", <<" ", "o", "N">>)
  /\ TheRecord["is_online"] = TRUE
  /\ TheRecord["status"] = <<"o", "N">>

(***************************************************************************)
(* The retry counter and the expiry signals of the device-list fetch.      *)
(***************************************************************************)
\* A session-expiry signal: a 302/303 whose Location contains "login", or a
\* 200 whose body contains both "login" and "password".
ExpirySignal(r) ==
  /\ r.exc = "none"
  /\ \/ r.status \in {302, 303} /\ r.locLogin
     \/ r.status = 200 /\ r.login /\ r.password

\* The step is the arrival of a device-list response.
FetchStep == pc = "fetch" /\ lastResp'.kind = "fetch"

\* C13: _auth_failures stays within 0..2, and a step raises it only by one,
\* only when the device-list fetch received a session-expiry signal: no
\* authenticate step, validate step, transport error or other HTTP error
\* raises it.
C13_CounterBoundedAndExpiryOnly ==
  /\ [](auth_failures \in 0..2)
  /\ [][auth_failures' > auth_failures =>
          /\ FetchStep
          /\ ExpirySignal(lastResp'.r)
          /\ auth_failures' = auth_failures + 1]_vars

\* The counter has just been incremented for a login redirect, in a call
\* that had authenticated before.
C13_Witness ==
  /\ auth_failures = 1
  /\ pc = "ensure"
  /\ authCalls > 0
  /\ lastResp.kind = "fetch"
  /\ lastResp.r.status = 302
  /\ lastResp.r.locLogin

\* C14: the fetch is treated as an expiry exactly on an expiry signal.  On
\* expiry with an access code and _auth_failures < 2 the client increments the
\* counter, clears the token and, below the interpreter's recursion limit,
\* re-runs get_devices; on expiry without an access code or with the counter
\* exhausted it returns None; on any other response the call ends with the
\* token kept and the counter not incremented.
C14_ExpiryHandling ==
  [][FetchStep =>
       LET r == lastResp'.r IN
       /\ (ExpirySignal(r) /\ access_code /\ auth_failures < 2) =>
            /\ auth_failures' = auth_failures + 1
            /\ session_id' = None
            /\ depth < MaxDepth => (pc' = "ensure" /\ depth' = depth + 1)
       /\ (ExpirySignal(r) /\ ~(access_code /\ auth_failures < 2)) =>
            /\ pc' = "done"
            /\ result' = NoneResult
            /\ UNCHANGED <<session_id, auth_failures>>
       /\ ~ExpirySignal(r) =>
            /\ pc' = "done"
            /\ session_id' = session_id
            /\ auth_failures' \in {0, auth_failures}]_vars

\* A 200 login page has made an access-code client clear its token and start
\* get_devices again.
C14_Witness ==
  /\ pc = "ensure"
  /\ depth = 1
  /\ access_code
  /\ lastResp.kind = "fetch"
  /\ lastResp.r.status = 200
  /\ lastResp.r.login
  /\ lastResp.r.password
  /\ session_id = None
  /\ auth_failures = 1

(***************************************************************************)
(* Validation and re-authentication in _ensure_authenticated.              *)
(***************************************************************************)
\* Where the call is while authenticate_with_access_code runs.
AuthPcs == {"auth_root", "auth_post", "auth_follow"}

\* The step in which authenticate_with_access_code returns.
AuthenticateReturned == pc \in AuthPcs /\ pc' \notin AuthPcs

\* The device-list fetches of this call that met an expiry signal.
ExpiredFetches == {i \in DOMAIN fetchLog : fetchLog[i] \in ExpiryClasses}

SessionDecision(r) ==
  CASE r.exc # "none" -> FALSE
    [] r.exc = "none" /\ r.status \in {302, 303} /\ r.locLogin -> FALSE
    [] r.exc = "none" /\ r.status = 200 /\ HasDeviceMarker(r) -> TRUE
    [] r.exc = "none" /\ r.status = 200 /\ ~HasDeviceMarker(r)
         /\ (r.login \/ r.password) -> FALSE
    [] OTHER -> r.status = 200

\* C16: for every response, validate_session reports the session valid (the
\* client goes on to the fetch) exactly when the decision function says so:
\* false for a login redirect and for a transport exception, true for a 200
\* with a device-list marker even beside login markers, false for a 200 with
\* login or password and no marker, otherwise true iff the status is 200.
C16_ValidateDecision ==
  [][pc = "validate" =>
       /\ lastResp'.kind = "validate"
       /\ (pc' = "fetch") <=> SessionDecision(lastResp'.r)]_vars

\* A 200 body with both login markers and a device-list marker was taken for
\* a valid session.
C16_Witness ==
  /\ pc = "fetch"
  /\ lastResp.kind = "validate"
  /\ lastResp.r.status = 200
  /\ lastResp.r.login
  /\ lastResp.r.password
  /\ HasDeviceMarker(lastResp.r)

(***************************************************************************)
(* authenticate_with_access_code: its requests, its value and its log.     *)
(***************************************************************************)
\* The SessionID cookie of a response, None without one or on an exception.
CookieOf(r) == IF r.exc = "none" THEN r.cookie ELSE None

\* C17: after the login POST, authenticate returns the value of the SessionID
\* cookie of the POST response when there is one; without one, a 302/303 is
\* followed by exactly one GET of the redirect target and the value of that
\* response's SessionID cookie is returned when there is one; in every other
\* case it returns None.  (What it returns is what the client stores.)
C17_TokenIffCookie ==
  /\ [][pc = "auth_post" =>
          LET r == lastResp'.r IN
          /\ lastResp'.kind = "post"
          /\ IF CookieOf(r) # None
             THEN session_id' = r.cookie /\ pc' # "auth_follow"
             ELSE IF r.exc = "none" /\ r.status \in {302, 303}
             THEN /\ pc' = "auth_follow"
                  /\ authReqs' = Append(authReqs, "GET redirect")
                  /\ session_id' = session_id
             ELSE session_id' = None /\ pc' = "done"]_vars
  /\ [][pc = "auth_follow" =>
          /\ lastResp'.kind = "follow"
          /\ session_id' = CookieOf(lastResp'.r)
          /\ pc' # "auth_follow"
          /\ authReqs' = authReqs]_vars

\* The token came from the cookie of the follow-up GET after a redirect.
C17_Witness ==
  /\ pc = "fetch"
  /\ lastResp.kind = "follow"
  /\ lastResp.r.cookie = "t2"
  /\ session_id = "t2"
  /\ authReqs = <<"GET root", "POST login", "GET redirect">>

\* The root page arrived with status 200 and shows an active session.
ActiveSessionPage(r) ==
  r.exc = "none" /\ r.status = 200 /\ (r.urlHome \/ r.devStatus)

\* C18 as stated: whenever the root page shows an active session,
\* authenticate returns the SessionID cookie of that response at once and
\* issues no login POST.
C18_ActivePageReturnsAtOnce ==
  [][(pc = "auth_root" /\ ActiveSessionPage(lastResp'.r)) =>
       /\ pc' \notin AuthPcs
       /\ authReqs' = authReqs
       /\ session_id' = lastResp'.r.cookie]_vars

\* C18, amended: when the root page shows an active session and its response
\* carries a SessionID cookie, authenticate returns that cookie's value at
\* once, with no login POST; when the response carries no SessionID cookie,
\* authenticate goes on as for a login page: it posts the login form if the
\* page has a form and fails with None if it has none.
C18_FastPathNeedsCookie ==
  [][(pc = "auth_root" /\ ActiveSessionPage(lastResp'.r)) =>
       LET r == lastResp'.r IN
       /\ lastResp'.kind = "root"
       /\ IF r.cookie # None
          THEN /\ session_id' = r.cookie
               /\ pc' \notin AuthPcs
               /\ authReqs' = authReqs
          ELSE IF r.form
          THEN /\ pc' = "auth_post"
               /\ authReqs' = Append(authReqs, "POST login")
               /\ session_id' = session_id
          ELSE /\ pc' = "done"
               /\ session_id' = None
               /\ authReqs' = authReqs]_vars

\* A page with "Device Status" and a SessionID cookie ended authenticate
\* after the one GET, although the page had a form.
C18_Witness ==
  /\ pc = "fetch"
  /\ lastResp.kind = "root"
  /\ lastResp.r.devStatus
  /\ ~lastResp.r.urlHome
  /\ lastResp.r.form
  /\ lastResp.r.cookie = "t2"
  /\ session_id = "t2"
  /\ authReqs = <<"GET root">>

\* The requests of one authenticate call, in their order.
LoginRequests == <<"GET root", "POST login", "GET redirect">>

\* One authenticate call has issued a prefix of LoginRequests: each request
\* at most once, in that order.
RequestsInOrder ==
  /\ Len(authReqs) <= Len(LoginRequests)
  /\ authReqs = SubSeq(LoginRequests, 1, Len(authReqs))

\* An exception at a step of authenticate ends the call with None, with no
\* further request and no further authenticate call.
ExceptionEndsLogin ==
  (pc \in AuthPcs /\ lastResp'.r.exc # "none") =>
     /\ pc' = "done"
     /\ result' = NoneResult
     /\ session_id' = None
     /\ authReqs' = authReqs
     /\ authCalls' = authCalls

\* The root page arrived with status 200 and has no form element.
FormlessPage(r) == r.exc = "none" /\ r.status = 200 /\ ~r.form

\* C19 as stated: at most one request of each kind, in order; an exception
\* ends the call with failure; a page without a form makes the call fail
\* without a POST.
C19_OneRequestEachAndFormlessFails ==
  /\ []RequestsInOrder
  /\ [][ExceptionEndsLogin]_vars
  /\ [][(pc = "auth_root" /\ FormlessPage(lastResp'.r)) =>
          /\ pc' = "done"
          /\ session_id' = None
          /\ authReqs' = authReqs]_vars

\* C19, amended: at most one request of each kind, in order; an exception
\* ends the call with failure and nothing is repeated; a page without a form
\* never leads to a POST, and the call then fails unless the page shows an
\* active session and carries a SessionID cookie, whose value it returns.
C19_OneRequestEachAndFormlessNoPost ==
  /\ []RequestsInOrder
  /\ [][ExceptionEndsLogin]_vars
  /\ [][(pc = "auth_root" /\ FormlessPage(lastResp'.r)) =>
          LET r == lastResp'.r IN
          /\ authReqs' = authReqs
          /\ pc' \notin AuthPcs
          /\ IF ActiveSessionPage(r) /\ r.cookie # None
             THEN session_id' = r.cookie
             ELSE pc' = "done" /\ session_id' = None]_vars

\* The login POST timed out: the call ended with None after two requests.
C19_Witness ==
  /\ pc = "done"
  /\ lastResp.kind = "post"
  /\ lastResp.r.exc = "timeout"
  /\ authReqs = <<"GET root", "POST login">>
  /\ session_id = None
  /\ result = NoneResult

\* The login POST was answered without a SessionID cookie and without a
\* redirect to follow.
PostWithoutCookie(r) ==
  r.exc = "none" /\ r.cookie = None /\ r.status \notin {302, 303}

\* C20 as stated: when no session cookie was obtained, what authenticate
\* returns tells an invalid credential from a missing cookie.
C20_FailureKindReturned ==
  [][(pc = "auth_post" /\ PostWithoutCookie(lastResp'.r)) =>
       session_id' = IF lastResp'.r.invalid
                     THEN "InvalidCredential" ELSE "NoSessionCookie"]_vars

\* C20, amended: authenticate returns a cookie value or None, and None for
\* every kind of failure; the kinds differ only in the error it logs.  After
\* a POST answered 200 without cookie it logs the invalid access code when the
\* body contains "incorrect" or "invalid" and the missing cookie otherwise;
\* after any other status without cookie, and after a redirect whose
\* follow-up GET brought no cookie, it logs no error at all.
C20_FailureKindOnlyLogged ==
  /\ [][AuthenticateReturned =>
          (session_id' = None \/ session_id' = CookieOf(lastResp'.r))]_vars
  /\ [][(pc = "auth_post" /\ PostWithoutCookie(lastResp'.r)) =>
          /\ session_id' = None
          /\ logged' = IF lastResp'.r.status # 200 THEN "none"
                       ELSE IF lastResp'.r.invalid
                            THEN "invalid device access code"
                            ELSE "no session cookie received"]_vars
  /\ [][(pc = "auth_follow" /\ lastResp'.r.exc = "none"
           /\ lastResp'.r.cookie = None) =>
          (session_id' = None /\ logged' = "none")]_vars

\* A 200 answer whose body says "invalid", without cookie: None was returned
\* and the invalid access code logged.
C20_Witness ==
  /\ pc = "done"
  /\ lastResp.kind = "post"
  /\ lastResp.r.status = 200
  /\ lastResp.r.invalid
  /\ lastResp.r.cookie = None
  /\ logged = "invalid device access code"
  /\ session_id = None
  /\ result = NoneResult

(***************************************************************************)
(* The authenticator's own state.                                          *)
(***************************************************************************)
\* C21 as stated: the authenticator stores nothing, so no token exists
\* outside the client's session_id.
C21_AuthenticatorStateless == auth_session_id = None

\* C21, amended: the authenticator keeps in its own session_id a copy of
\* the last cookie value it returned.  The copy is written exactly when
\* authenticate returns a cookie value, and is left as it is by
\* validate_session and by a failed authenticate, so that it can differ from
\* the client's session_id afterwards.
C21_AuthenticatorKeepsLastToken ==
  /\ [][auth_session_id' # auth_session_id =>
          (AuthenticateReturned /\ session_id' # None
             /\ auth_session_id' = session_id')]_vars
  /\ [][(AuthenticateReturned /\ session_id' # None) =>
          auth_session_id' = session_id']_vars
  /\ [][(pc = "validate" \/ (AuthenticateReturned /\ session_id' = None)) =>
          auth_session_id' = auth_session_id]_vars

\* A re-authentication has failed: the client holds no token and the
\* authenticator still holds the one of the earlier login.
C21_Witness ==
  /\ pc = "done"
  /\ session_id = None
  /\ auth_session_id = "t2"
  /\ result = NoneResult
  /\ lastResp.kind \in {"root", "post", "follow"}

(***************************************************************************)
(* The entities that read coordinator.data (device_tracker.py, sensor.py). *)
(***************************************************************************)
\* device.get(k, default)
Get(d, k, default) == IF HasKey(d, k) THEN d[k] ELSE default

\* ATTRouterDevice.is_connected
IsConnected(published, mac) ==
  IF mac \notin DOMAIN published THEN FALSE
  ELSE Get(published[mac], "is_online", FALSE)

\* The mutant of Exempt for which no device is always home.
Exempt_None(mac, always_home) == FALSE

\* mac in always_home
Exempt(mac, always_home) == mac \in always_home

\* sum(1 for mac, device in data.items()
\*     if device.get("is_online", False) and mac not in always_home)
TrackedOnline(published, always_home) ==
  Cardinality({mac \in DOMAIN published :
                 Get(published[mac], "is_online", FALSE) /\ ~Exempt(mac, always_home)})

\* ATTRouterOnlineDevicesSensor.native_value
OnlineDevicesValue(published, always_home) ==
  IF DOMAIN published = {} THEN 0 ELSE TrackedOnline(published, always_home)

\* ATTRouterPresenceSensor.native_value
PresenceValue(published, always_home) ==
  IF DOMAIN published = {} THEN "unknown"
  ELSE IF TrackedOnline(published, always_home) > 0 THEN "home" ELSE "away"

\* The always-home lists of the config entry: any of the pages' devices.
AlwaysHomeLists ==
  SUBSET {MacKey(CellValue(r)) : r \in {MacRowUpper, MacRowPlain, MacRowDash}}

(***************************************************************************)
(* What a poll publishes, and what the sensors make of it.                 *)
(***************************************************************************)
\* The step in which async_update_data ends after get_devices returned None.
FailedPollPublished == pc = "done" /\ result.kind = "none" /\ pc' = "idle"

\* C22: a poll whose get_devices returned None changes nothing: the data of
\* the previous successful poll stays published, every device that was
\* connected stays connected, and the presence and online-devices sensors
\* keep their values.
C22_FailedPollKeepsData ==
  [][FailedPollPublished =>
       /\ data' = data
       /\ \A mac \in DOMAIN data : IsConnected(data, mac) => IsConnected(data', mac)
       /\ \A ah \in AlwaysHomeLists :
            /\ PresenceValue(data', ah) = PresenceValue(data, ah)
            /\ OnlineDevicesValue(data', ah) = OnlineDevicesValue(data, ah)]_vars

\* The devices of the published data that count for presence: online and not
\* in the always-home list.
NonExemptOnline(ah) ==
  {mac \in DOMAIN data :
     /\ mac \notin ah
     /\ HasKey(data[mac], "is_online")
     /\ data[mac]["is_online"]}

\* C23: when the published data is not empty, for every always-home list the
\* presence sensor is "home" if at least one device outside the list is
\* online and "away" otherwise, and the online-devices sensor is the number
\* of those devices.
C23_PresenceIffNonExemptOnline ==
  (pc = "idle" /\ DOMAIN data # {}) =>
    \A ah \in AlwaysHomeLists :
      /\ PresenceValue(data, ah) = IF NonExemptOnline(ah) # {} THEN "home" ELSE "away"
      /\ OnlineDevicesValue(data, ah) = Cardinality(NonExemptOnline(ah))

\* Two devices are published, the online one is on an always-home list: the
\* sensor is "away" with that list and "home" with the empty one.
C23_Witness ==
  /\ pc = "idle"
  /\ Cardinality(DOMAIN data) = 2
  /\ \E mac \in DOMAIN data :
       /\ IsConnected(data, mac)
       /\ PresenceValue(data, {mac}) = "away"
       /\ OnlineDevicesValue(data, {mac}) = 0
       /\ PresenceValue(data, {}) = "home"
       /\ OnlineDevicesValue(data, {}) = 1

(***************************************************************************)
(* The parser's cells: one device block, a MAC row followed by rows whose  *)
(* cells exercise the address/name split and the connection-type parser.   *)
(***************************************************************************)
\* The "IPv4 Address / Name" cells: "1", "1/a/b", " 1 / a ", "/", "".
IpNameTexts ==
  {<<"1">>,
   <<"1", "/", "a", "/", "b">>,
   <<" ", "1", " ", "/", " ", "a", " ">>,
   <<"/">>,
   <<>>}

\* The "Name" cells: "pc", "".
NameTexts == {<<"p", "c">>, <<>>}

IpNameRows ==
  {DataRow("IPv4 Address / Name", t) : t \in IpNameTexts}
  \cup {DataRow("Name", t) : t \in NameTexts}

\* The "Connection Type" cells, as text and alt text of the image ("" without
\* an image):
\*   "Ethernet (Port 1)" / ""
\*   "Wi-Fi Ethernet" / "3 bars"
\*   "ethernet" / ""
\*   "Cable" / "3 bars"
\*   "" / ""
\*   "Wi-Fi" / ""
\*   "Wi-Fi" / "bars"
\*   "Wi-Fi" / "1 bar"
\*   "Wi-Fi" / "x 12 bars 3 bars"
\*   "Wi-Fi 5 GHz Name: HomeNet-5G" / "3 bars"
\*   "GHz Wi-Fi Name:" / ""
\*   "Wi-Fi 5GHz 2.4 GHz Name: a Name: b" / "0 bars"
ConnectionRows ==
  {ImageRow("Connection Type", <<"E", "t", "h", "e", "r", "n", "e", "t", " ", "(", "P", "o", "r", "t", " ", "1", ")">>,
            <<>>),
   ImageRow("Connection Type", <<"W", "i", "-", "F", "i", " ", "E", "t", "h", "e", "r", "n", "e", "t">>,
            <<"3", " ", "b", "a", "r", "s">>),
   ImageRow("Connection Type", <<"e", "t", "h", "e", "r", "n", "e", "t">>,
            <<>>),
   ImageRow("Connection Type", <<"C", "a", "b", "l", "e">>,
            <<"3", " ", "b", "a", "r", "s">>),
   ImageRow("Connection Type", <<>>,
            <<>>),
   ImageRow("Connection Type", <<"W", "i", "-", "F", "i">>,
            <<>>),
   ImageRow("Connection Type", <<"W", "i", "-", "F", "i">>,
            <<"b", "a", "r", "s">>),
   ImageRow("Connection Type", <<"W", "i", "-", "F", "i">>,
            <<"1", " ", "b", "a", "r">>),
   ImageRow("Connection Type", <<"W", "i", "-", "F", "i">>,
            <<"x", " ", "1", "2", " ", "b", "a", "r", "s", " ", "3", " ", "b", "a", "r", "s">>),
   ImageRow("Connection Type", <<"W", "i", "-", "F", "i", " ", "5", " ", "G", "H", "z", " ", "N", "a", "m", "e", ":", " ", "H", "o", "m", "e", "N", "e", "t", "-", "5", "G">>,
            <<"3", " ", "b", "a", "r", "s">>),
   ImageRow("Connection Type", <<"G", "H", "z", " ", "W", "i", "-", "F", "i", " ", "N", "a", "m", "e", ":">>,
            <<>>),
   ImageRow("Connection Type", <<"W", "i", "-", "F", "i", " ", "5", "G", "H", "z", " ", "2", ".", "4", " ", "G", "H", "z", " ", "N", "a", "m", "e", ":", " ", "a", " ", "N", "a", "m", "e", ":", " ", "b">>,
            <<"0", " ", "b", "a", "r", "s">>)}

CellRows == IpNameRows \cup ConnectionRows

CellPages == {<<MacRowPlain>> \o p : p \in SeqsUpTo(CellRows, MaxFieldRows)}

InitCells ==
  /\ access_code = FALSE
  /\ session_id = "t1"
  /\ auth_failures = 0
  /\ auth_session_id = None
  /\ pc = "parse"
  /\ depth = 0
  /\ result = Pending
  /\ html \in CellPages
  /\ data = [m \in {} |-> EmptyDevice]
  /\ startToken = "t1"
  /\ authCalls = 0
  /\ validateCalls = 0
  /\ fetchLog = <<>>
  /\ allAuthOk = TRUE
  /\ lastResp = NoResponse
  /\ logged = "none"
  /\ authReqs = <<>>
  /\ entry = EmptyDevice
  /\ setup = "none"

SpecCells == InitCells /\ [][NextParse]_vars

(***************************************************************************)
(* The address/name split.                                                 *)
(***************************************************************************)
\* The positions of "/" in a text.
Slashes(v) == {i \in 1..Len(v) : v[i] = "/"}

\* The trimmed text before the first "/" of a trimmed cell, or all of it.
BeforeFirstSlash(v) ==
  IF Slashes(v) = {} THEN v
  ELSE LET k == CHOOSE i \in Slashes(v) : \A j \in Slashes(v) : i <= j
       IN Strip(SubSeq(v, 1, k - 1))

\* The trimmed text after the first "/" of a trimmed cell that has one.
AfterFirstSlash(v) ==
  LET k == CHOOSE i \in Slashes(v) : \A j \in Slashes(v) : i <= j
  IN Strip(SubSeq(v, k + 1, Len(v)))

\* The rows of the page that give an address, and those that give a name: a
\* Name row, or an address row whose cell has a "/".
IpRowsOf == {i \in 1..Len(html) : html[i].label = "IPv4 Address / Name"}

NamingRowsOf ==
  {i \in 1..Len(html) :
     \/ html[i].label = "Name"
     \/ html[i].label = "IPv4 Address / Name" /\ Slashes(Strip(html[i].text)) # {}}

\* The name a naming row gives.
NameGivenBy(i) ==
  IF html[i].label = "Name" THEN Strip(html[i].text)
  ELSE AfterFirstSlash(Strip(html[i].text))

\* The largest element of a non-empty set of numbers.
MaxOf(S) == CHOOSE i \in S : \A j \in S : j <= i

\* C24: the record's ip is the trimmed text before the first "/" of the
\* block's last address cell, or the whole trimmed cell when it has no "/";
\* its name is the trimmed text after that first "/" (further "/" included)
\* or the text of a Name cell, whichever row comes later in the document; an
\* address cell without "/" leaves the name as it was, and without any naming
\* row the record has no name.
C24_SplitOnFirstSlash ==
  (pc = "done" /\ result.kind = "list") =>
    /\ Len(result.devices) = 1
    /\ HasKey(TheRecord, "ip") <=> IpRowsOf # {}
    /\ IpRowsOf # {} =>
         TheRecord["ip"] = BeforeFirstSlash(Strip(html[MaxOf(IpRowsOf)].text))
    /\ HasKey(TheRecord, "name") <=> NamingRowsOf # {}
    /\ NamingRowsOf # {} => TheRecord["name"] = NameGivenBy(MaxOf(NamingRowsOf))

\* The cell "1/a/b" after a Name row "pc": ip "1", name "a/b".
C24_Witness ==
  /\ pc = "done"
  /\ Len(html) = 3
  /\ html[2] = DataRow("Name", <<"p", "c">>)
  /\ html[3] = DataRow("IPv4 Address / Name", <<"1", "/", "a", "/", "b">>)
  /\ TheRecord["ip"] = <<"1">>
  /\ TheRecord["name"] = <<"a", "/", "b">>

(***************************************************************************)
(* The connection-type cells.                                              *)
(***************************************************************************)
\* The last Connection Type row of the page handed to the parser, 0 without
\* one.
LastConnectionRow ==
  LET S == {i \in 1..Len(html) : html[i].label = "Connection Type"} IN
  IF S = {} THEN 0 ELSE MaxOf(S)

\* A page with a Connection Type row has been parsed.
ConnectionParsed ==
  pc = "done" /\ result.kind = "list" /\ LastConnectionRow # 0

\* The text and the alt text of that row's cell, and what was made of them.
ConnText == html[LastConnectionRow].text

ConnAlt == html[LastConnectionRow].alt

ConnRecord == TheRecord["connection_type"]

\* C25: every cell text is classified and kept as raw: with "Ethernet" in it
\* (even beside "Wi-Fi") the type is ethernet and interface is the whole
\* text; otherwise with "Wi-Fi" in it the type is wifi, without interface;
\* otherwise the dict has no type (the kind is unknown) and nothing but raw.
C25_ConnectionKind ==
  ConnectionParsed =>
    /\ Len(result.devices) = 1
    /\ ConnRecord["raw"] = ConnText
    /\ IF Contains(ConnText, EthernetWord)
       THEN /\ ConnRecord["type"] = "ethernet"
            /\ ConnRecord["interface"] = ConnText
            /\ DOMAIN ConnRecord = {"raw", "type", "interface"}
       ELSE IF Contains(ConnText, WiFiWord)
       THEN ConnRecord["type"] = "wifi" /\ ~HasKey(ConnRecord, "interface")
       ELSE DOMAIN ConnRecord = {"raw"}

\* "Wi-Fi Ethernet" has been classified as ethernet.
C25_Witness ==
  /\ ConnectionParsed
  /\ ConnText = <<"W", "i", "-", "F", "i", " ", "E", "t", "h", "e", "r", "n", "e", "t">>
  /\ ConnRecord["type"] = "ethernet"
  /\ ConnRecord["interface"] = ConnText

\* conn_type.get("signal_bars", 0): the signal strength the entity reads.
SignalBarsRead(conn_type) == Get(conn_type, "signal_bars", 0)

\* What the pattern "<N> bar(s)" finds in each alt text of the pages: N, or
\* -1 when the text does not match or there is no image.
BarsOfAlt(alt) ==
  CASE alt = <<"3", " ", "b", "a", "r", "s">> -> 3
    [] alt = <<"1", " ", "b", "a", "r">> -> 1
    [] alt = <<"x", " ", "1", "2", " ", "b", "a", "r", "s", " ", "3", " ", "b", "a", "r", "s">> -> 12
    [] alt = <<"0", " ", "b", "a", "r", "s">> -> 0
    [] OTHER -> -1

\* A Wi-Fi cell has been parsed.
WifiParsed ==
  /\ ConnectionParsed
  /\ Contains(ConnText, WiFiWord)
  /\ ~Contains(ConnText, EthernetWord)

\* C26 as stated: the signal strength of a Wi-Fi cell is recorded in any
\* case, as N on a match and as 0 otherwise.
C26_SignalBarsAlwaysRecorded ==
  WifiParsed =>
    /\ HasKey(ConnRecord, "signal_bars")
    /\ ConnRecord["signal_bars"] = IF BarsOfAlt(ConnAlt) >= 0 THEN BarsOfAlt(ConnAlt) ELSE 0

\* C26, amended: signal_bars is N when the cell has an image whose alt text
\* matches "<N> bar(s)"; without image or without match the key is not set,
\* and the entity that reads it takes the missing value for 0.
C26_SignalBarsOnlyOnMatch ==
  WifiParsed =>
    /\ HasKey(ConnRecord, "signal_bars") <=> BarsOfAlt(ConnAlt) >= 0
    /\ BarsOfAlt(ConnAlt) >= 0 => ConnRecord["signal_bars"] = BarsOfAlt(ConnAlt)
    /\ BarsOfAlt(ConnAlt) < 0 => SignalBarsRead(ConnRecord) = 0

\* A Wi-Fi cell whose image says "bars" without a number: no signal_bars in
\* the dict, and 0 for the entity.
C26_Witness ==
  /\ WifiParsed
  /\ ConnAlt = <<"b", "a", "r", "s">>
  /\ ~HasKey(ConnRecord, "signal_bars")
  /\ SignalBarsRead(ConnRecord) = 0

\* The whitespace tokens of the cell text.
ConnTokens == Split(ConnText)

\* The tokens with "GHz" in them that have a token before them, and the
\* tokens "Name:" that have a token after them.
BandTokens ==
  {i \in 2..Len(ConnTokens) : Contains(ConnTokens[i], GHzWord)}

NameTokens ==
  {i \in 1..(Len(ConnTokens) - 1) : ConnTokens[i] = NameWord}

\* C27: in a Wi-Fi cell, band is "<preceding token> <token>" for the last
\* token containing "GHz" that has a preceding token, network_name is the
\* token after the last "Name:" that has a following token, and each is unset
\* without such a token.
C27_BandAndNetworkName ==
  WifiParsed =>
    /\ HasKey(ConnRecord, "band") <=> BandTokens # {}
    /\ BandTokens # {} =>
         ConnRecord["band"] =
           ConnTokens[MaxOf(BandTokens) - 1] \o <<" ">> \o ConnTokens[MaxOf(BandTokens)]
    /\ HasKey(ConnRecord, "network_name") <=> NameTokens # {}
    /\ NameTokens # {} =>
         ConnRecord["network_name"] = ConnTokens[MaxOf(NameTokens) + 1]

\* "Wi-Fi 5 GHz Name: HomeNet-5G" with alt text "3 bars" has given wifi,
\* 3 bars, band "5 GHz" and network name "HomeNet-5G".
C27_Witness ==
  /\ WifiParsed
  /\ ConnText = <<"W", "i", "-", "F", "i", " ", "5", " ", "G", "H", "z", " ", "N", "a", "m", "e", ":", " ", "H", "o", "m", "e", "N", "e", "t", "-", "5", "G">>
  /\ ConnAlt = <<"3", " ", "b", "a", "r", "s">>
  /\ ConnRecord["type"] = "wifi"
  /\ ConnRecord["signal_bars"] = 3
  /\ ConnRecord["band"] = <<"5", " ", "G", "H", "z">>
  /\ ConnRecord["network_name"] = <<"H", "o", "m", "e", "N", "e", "t", "-", "5", "G">>

(***************************************************************************)
(* The retry counter between operations.                                   *)
(***************************************************************************)
\* No get_devices call is running.
BetweenOperations == pc \in {"idle", "done"}

\* C28: between operations a client that holds a session token has
\* _auth_failures = 0; the counter never exceeds 1; and whenever an
\* access-code client detects a session expiry during a fetch, the guard
\* _auth_failures < 2 is true.
C28_CounterZeroWithToken ==
  /\ []((BetweenOperations /\ Truthy(session_id)) => auth_failures = 0)
  /\ [](auth_failures <= 1)
  /\ [][(FetchStep /\ ExpirySignal(lastResp'.r) /\ access_code) =>
          (auth_failures < 2 /\ auth_failures' = auth_failures + 1)]_vars

\* A second expiry in one call has passed the guard again: the counter,
\* reset by the login in between, is 1 once more.
C28_Witness ==
  /\ pc = "ensure"
  /\ depth = 2
  /\ access_code
  /\ auth_failures = 1
  /\ Len(fetchLog) = 2
  /\ ExpirySignal(lastResp.r)

(***************************************************************************)
(* Block isolation in _parse_devices.                                      *)
(***************************************************************************)
\* The label of the rows that set a field.
SetterLabel(field) ==
  CASE field \in {"mac", "mac_formatted"} -> "MAC Address"
    [] field = "name" -> "Name"
    [] field \in {"status", "is_online"} -> "Status"
    [] OTHER -> "none"

\* C29: every field of the k-th record was set by a row of the k-th block
\* that has a MAC Address row: rows of a block discarded for lacking a MAC
\* give nothing to a later record.
C29_BlockIsolation ==
  (pc = "done" /\ result.kind = "list") =>
    \A k \in 1..Len(result.devices) :
      LET s == KthOf(MacBlocks(html), k) IN
      \A field \in DOMAIN result.devices[k] :
        \E j \in s..(BlockEnd(html, s) - 1) :
          /\ html[j].th
          /\ html[j].td
          /\ html[j].label = SetterLabel(field)

(***************************************************************************)
(* The config flow and the device tracker's setup of the entry it creates. *)
(***************************************************************************)
\* What the user types into the forms of the flow.
Hosts == {"192.168.1.254"}

AccessCodes == {"1234", "0000"}

SessionIds == {"t1", ""}

\* The keys both paths add to the data after validate_input succeeded.
WithDefaults(d) ==
  Put(Put(d, "always_home_devices", <<>>), "presence_detection", TRUE)

\* async_step_access_code: ok is whether validate_input returned (get_devices
\* gave a list) or raised; an error shows the form again.
AsyncStepAccessCode ==
  /\ pc = "flow"
  /\ \E host \in Hosts, code \in AccessCodes, ok \in BOOLEAN :
       IF ok
       THEN /\ entry' = WithDefaults(Put(Put(Put(EmptyDevice, "host", host),
                                             "auth_method", "access_code"),
                                         "access_code", code))
            /\ pc' = "created"
       ELSE UNCHANGED <<entry, pc>>
  /\ UNCHANGED <<access_code, session_id, auth_failures, auth_session_id, depth,
                 result, html, data, startToken, authCalls, validateCalls,
                 fetchLog, allAuthOk, lastResp, logged, authReqs, setup>>

\* async_step_session_id
AsyncStepSessionId ==
  /\ pc = "flow"
  /\ \E host \in Hosts, sid \in SessionIds, ok \in BOOLEAN :
       IF ok
       THEN /\ entry' = WithDefaults(Put(Put(Put(EmptyDevice, "host", host),
                                             "auth_method", "session_id"),
                                         "session_id", sid))
            /\ pc' = "created"
       ELSE UNCHANGED <<entry, pc>>
  /\ UNCHANGED <<access_code, session_id, auth_failures, auth_session_id, depth,
                 result, html, data, startToken, authCalls, validateCalls,
                 fetchLog, allAuthOk, lastResp, logged, authReqs, setup>>

\* async_setup_entry of the device tracker, up to its first refresh:
\* ATTRouterClient(session, entry.data[CONF_HOST], entry.data[CONF_SESSION_ID]).
\* A missing key raises KeyError; the client is built without access code.
AsyncSetupEntry ==
  /\ pc = "created"
  /\ IF HasKey(entry, "host") /\ HasKey(entry, "session_id")
     THEN /\ access_code' = FALSE
          /\ session_id' = entry["session_id"]
          /\ auth_failures' = 0
          /\ setup' = "ok"
          /\ pc' = "idle"
     ELSE /\ setup' = "KeyError"
          /\ pc' = "failed"
          /\ UNCHANGED <<access_code, session_id, auth_failures>>
  /\ UNCHANGED <<auth_session_id, depth, result, html, data, startToken,
                 authCalls, validateCalls, fetchLog, allAuthOk, lastResp, logged,
                 authReqs, entry>>

InitSetup ==
  /\ access_code = FALSE
  /\ session_id = None
  /\ auth_failures = 0
  /\ auth_session_id = None
  /\ pc = "flow"
  /\ depth = 0
  /\ result = Pending
  /\ html = <<>>
  /\ data = [m \in {} |-> EmptyDevice]
  /\ startToken = None
  /\ authCalls = 0
  /\ validateCalls = 0
  /\ fetchLog = <<>>
  /\ allAuthOk = TRUE
  /\ lastResp = NoResponse
  /\ logged = "none"
  /\ authReqs = <<>>
  /\ entry = EmptyDevice
  /\ setup = "none"

\* The flow, the setup and the polls of the client the setup builds.
NextSetup ==
  \/ AsyncStepAccessCode
  \/ AsyncStepSessionId
  \/ AsyncSetupEntry
  \/ GetDevices
  \/ EnsureAuthenticated
  \/ FetchReturns
  \/ AsyncUpdateData

SpecSetup == InitSetup /\ [][NextSetup]_vars

\* C30: the entry created by either path of the flow is set up without
\* error, and the client built from it has the entry's auth mode and
\* credential: an access code for an access-code entry, the stored session id
\* for a session-id entry.
C30_EntrySetsUp ==
  [][pc = "created" =>
       /\ setup' = "ok"
       /\ access_code' = (entry["auth_method"] = "access_code")
       /\ entry["auth_method"] = "session_id" => session_id' = entry["session_id"]]_vars

(***************************************************************************)
(* The total-devices sensor (sensor.py).                                   *)
(***************************************************************************)
\* The default of device.get("status", "unknown").
UnknownStatus == <<"u", "n", "k", "n", "o", "w", "n">>

\* The default of device.get("name", "Unknown").
UnknownName == <<"U", "n", "k", "n", "o", "w", "n">>

\* device_list of extra_state_attributes, one entry for each value of the
\* published dict, held by the device's key.  The sums below run over every
\* entry, so the order the list is sorted in does not enter them; the mac
\* and ip of an entry are not read again.
DeviceList(published) ==
  [mac \in DOMAIN published |->
     [name   |-> Get(published[mac], "name", UnknownName),
      status |-> Get(published[mac], "status", UnknownStatus)]]

\* sum(1 for d in device_list if d["status"] == "on")
OnlineCount(published) ==
  Cardinality({mac \in DOMAIN published :
                 DeviceList(published)[mac].status = <<"o", "n">>})

\* sum(1 for d in device_list if d["status"] == "off")
OfflineCount(published) ==
  Cardinality({mac \in DOMAIN published :
                 DeviceList(published)[mac].status = <<"o", "f", "f">>})

\* ATTRouterTotalDevicesSensor.extra_state_attributes: {} without data.
ExtraStateAttributes(published) ==
  IF DOMAIN published = {} THEN EmptyDevice
  ELSE [online_count  |-> OnlineCount(published),
        offline_count |-> OfflineCount(published)]

\* The published records the parser marked online.
ParsedOnline == {mac \in DOMAIN data : Get(data[mac], "is_online", FALSE)}

\* The published records that have a status.
WithStatus == {mac \in DOMAIN data : HasKey(data[mac], "status")}

\* C31: whenever the published data is not empty, the total-devices
\* sensor's online_count is the number of records whose is_online is true,
\* and online_count plus offline_count is the number of records that have a
\* status: the sensor counts as online what the parser marked online.
C31_CountsAgreeWithParser ==
  (pc = "idle" /\ DOMAIN data # {}) =>
    LET attrs == ExtraStateAttributes(data) IN
    /\ attrs["online_count"] = Cardinality(ParsedOnline)
    /\ attrs["offline_count"] + attrs["online_count"] = Cardinality(WithStatus)

====
